---------------------------- MODULE Spec2Model ----------------------------
(***************************************************************************)
(* A model of the chat.rs WebSocket server.                                *)
(*                                                                         *)
(*   src/src/frame.rs  the frame codec (WebSocketFrame, its header)        *)
(*   src/src/main.rs   the per-connection state machine (WebSocketClient)  *)
(*                     and the registry / event handler (WebSocketServer)  *)
(*                                                                         *)
(* Three specifications share the module:                                  *)
(*   CodecSpec     applies the codec's functions to bounded inputs;        *)
(*   Spec          is the server driven by the events of its poller;       *)
(*   AnyEventSpec  is one connection driven by any events whatever.        *)
(* Bytes are integers 0..255, a byte stream is a sequence of bytes, and    *)
(* every length of the model stays far below 2^31.                         *)
(***************************************************************************)
EXTENDS Integers, Sequences, FiniteSets, TLC

(***************************************************************************)
(* Bounds of the model.                                                    *)
(***************************************************************************)
\* determine_len is probed on every length 0..MaxProbeLen
MaxProbeLen == 65600
\* payloads of the frames a peer sends to the codec bench hold 0..MaxPayload bytes
MaxPayload == 3
\* payloads of the frames a peer sends to the server hold 0..MaxPeerPayload bytes
MaxPeerPayload == 2
\* the listener accepts at most MaxAccepts connections in a run
MaxAccepts == 2
\* the longest queue a connection is let to build under AnyEventSpec
MaxQueue == 1

(***************************************************************************)
(* Constants of the program.                                               *)
(***************************************************************************)
PAYLOAD_LEN_U16 == 126
PAYLOAD_LEN_U64 == 127
U16_MAX == 65535
SERVER_TOKEN == 0
FIRST_TOKEN == 1

OpText == 1
OpBinary == 2
OpClose == 8
OpPing == 9
OpPong == 10
OpCodes == {OpText, OpBinary, OpClose, OpPing, OpPong}
NoOpcode == 0

(***************************************************************************)
(* Bit operations on naturals, and big-endian integers.                    *)
(***************************************************************************)
RECURSIVE BitAnd(_, _)
BitAnd(a, b) ==
  IF a = 0 \/ b = 0 THEN 0
  ELSE (a % 2) * (b % 2) + 2 * BitAnd(a \div 2, b \div 2)

RECURSIVE BitOr(_, _)
BitOr(a, b) ==
  IF a = 0 THEN b
  ELSE IF b = 0 THEN a
  ELSE (IF a % 2 = 1 \/ b % 2 = 1 THEN 1 ELSE 0) + 2 * BitOr(a \div 2, b \div 2)

RECURSIVE BitXor(_, _)
BitXor(a, b) ==
  IF a = 0 THEN b
  ELSE IF b = 0 THEN a
  ELSE ((a + b) % 2) + 2 * BitXor(a \div 2, b \div 2)

BoolBit(b) == IF b THEN 1 ELSE 0

\* write_u16::<BigEndian>
U16BE(v) == << (v \div 256) % 256, v % 256 >>

\* write_u64::<BigEndian>; the four high bytes of a value below 2^31 are 0
U64BE(v) ==
  << 0, 0, 0, 0, (v \div 16777216) % 256, (v \div 65536) % 256,
     (v \div 256) % 256, v % 256 >>

\* read_u16 / read_u64::<BigEndian> on the bytes read
RECURSIVE BEValue(_)
BEValue(bytes) ==
  IF bytes = << >> THEN 0
  ELSE 256 * BEValue(SubSeq(bytes, 1, Len(bytes) - 1)) + bytes[Len(bytes)]

Min(a, b) == IF a < b THEN a ELSE b

Take(s, n) == SubSeq(s, 1, Min(n, Len(s)))
Drop(s, n) == SubSeq(s, Min(n, Len(s)) + 1, Len(s))
Zeros(n) == [i \in 1..n |-> 0]

(***************************************************************************)
(* frame.rs: the header and the frame.                                     *)
(***************************************************************************)
OpCodeFrom(op) == IF op \in OpCodes THEN op ELSE NoOpcode

\* a variant that keeps the 16-bit marker up to and including u16::MAX
determine_len_le(len) ==
  IF len < PAYLOAD_LEN_U16 THEN len % 256
  ELSE IF len <= U16_MAX THEN PAYLOAD_LEN_U16
  ELSE PAYLOAD_LEN_U64

determine_len(len) ==
  IF len < PAYLOAD_LEN_U16 THEN len % 256
  ELSE IF len < U16_MAX THEN PAYLOAD_LEN_U16
  ELSE PAYLOAD_LEN_U64

\* a variant that stores the low seven bits of the length as the code
new_header_low_bits(len, opcode) ==
  [fin |-> TRUE, rsv1 |-> FALSE, rsv2 |-> FALSE, rsv3 |-> FALSE,
   masked |-> FALSE, opcode |-> opcode, payload_length |-> len % 128]

new_header(len, opcode) ==
  [fin |-> TRUE, rsv1 |-> FALSE, rsv2 |-> FALSE, rsv3 |-> FALSE,
   masked |-> FALSE, opcode |-> opcode, payload_length |-> determine_len(len)]

NoMask == << >>
NoHeader ==
  [fin |-> FALSE, rsv1 |-> FALSE, rsv2 |-> FALSE, rsv3 |-> FALSE,
   masked |-> FALSE, opcode |-> NoOpcode, payload_length |-> 0]
NoFrame == [header |-> NoHeader, mask |-> NoMask, payload |-> << >>]

\* From<&str> for WebSocketFrame
FromText(payload) ==
  [header |-> new_header(Len(payload), OpText), mask |-> NoMask,
   payload |-> payload]

get_opcode(frame) == frame.header.opcode

is_close(frame) == frame.header.opcode = OpClose

\* Ok(header) or Err("Invalid opcode: ..")
parse_header(buf) ==
  LET hi == (buf \div 256) % 256
      lo == buf % 256
      opcode_num == BitAnd(hi, 15)
      opcode == OpCodeFrom(opcode_num)
  IN  IF opcode # NoOpcode
      THEN [ok |-> TRUE,
            header |-> [fin |-> BitAnd(hi, 128) = 128,
                        rsv1 |-> BitAnd(hi, 64) = 64,
                        rsv2 |-> BitAnd(hi, 32) = 32,
                        rsv3 |-> BitAnd(hi, 16) = 16,
                        masked |-> BitAnd(lo, 128) = 128,
                        opcode |-> opcode,
                        payload_length |-> BitAnd(lo, 127)]]
      ELSE [ok |-> FALSE, header |-> NoHeader]

apply_mask(mask, bytes) ==
  [i \in 1..Len(bytes) |-> BitXor(bytes[i], mask[((i - 1) % 4) + 1])]

serialize_header(header) ==
  LET b1 == BitOr(BitOr(BitOr(BitOr(BoolBit(header.fin) * 128,
                                    BoolBit(header.rsv1) * 64),
                              BoolBit(header.rsv2) * 32),
                        BoolBit(header.rsv3) * 16),
                  BitAnd(header.opcode, 127))
      b2 == BitOr(BoolBit(header.masked) * 128, BitAnd(header.payload_length, 127))
  IN  b1 * 256 + b2

\* a variant that writes every extended length as 64 bits
Write_u64_only(frame) ==
  U16BE(serialize_header(frame.header))
  \o (IF frame.header.payload_length \in {PAYLOAD_LEN_U16, PAYLOAD_LEN_U64}
        THEN U64BE(Len(frame.payload))
      ELSE << >>)
  \o frame.payload

\* WebSocketFrame::write into a Vec / a socket that takes every byte
Write(frame) ==
  U16BE(serialize_header(frame.header))
  \o (IF frame.header.payload_length = PAYLOAD_LEN_U16
        THEN U16BE(Len(frame.payload) % 65536)
      ELSE IF frame.header.payload_length = PAYLOAD_LEN_U64
        THEN U64BE(Len(frame.payload))
      ELSE << >>)
  \o frame.payload

(***************************************************************************)
(* Reading.  A stream is the bytes it holds now; `eof` tells what one      *)
(* read() of a non-empty buffer returns once they are used up: Ok(0) (a    *)
(* Cursor, a closed peer) when TRUE, Err(WouldBlock) (a non-blocking       *)
(* socket) when FALSE.  read_u16 / read_u64 are read_exact: they fail on   *)
(* a short stream.  A result is [kind, frame, consumed] with kind "ok",    *)
(* "io_error" (an Err returned to the caller) or "panic" (the unwrap of    *)
(* parse_header's Err aborts the thread, here the process).                *)
(***************************************************************************)
ReadResult(kind, frame, consumed) ==
  [kind |-> kind, frame |-> frame, consumed |-> consumed]

\* Ok(len, bytes used) or Err
read_length(payload_len, input) ==
  IF payload_len = PAYLOAD_LEN_U64
    THEN IF Len(input) >= 8
           THEN [ok |-> TRUE, len |-> BEValue(Take(input, 8)), used |-> 8]
           ELSE [ok |-> FALSE, len |-> 0, used |-> Len(input)]
  ELSE IF payload_len = PAYLOAD_LEN_U16
    THEN IF Len(input) >= 2
           THEN [ok |-> TRUE, len |-> BEValue(Take(input, 2)), used |-> 2]
           ELSE [ok |-> FALSE, len |-> 0, used |-> Len(input)]
  ELSE [ok |-> TRUE, len |-> payload_len, used |-> 0]

\* one read() into a zeroed buffer of n bytes: the bytes got, zero-padded
ReadOnce(n, input, eof) ==
  IF n > 0 /\ Len(input) = 0 /\ ~eof
    THEN [ok |-> FALSE, bytes |-> << >>, used |-> 0]
    ELSE [ok |-> TRUE,
          bytes |-> Take(input, n) \o Zeros(n - Min(n, Len(input))),
          used |-> Min(n, Len(input))]

read_mask(input, eof) == ReadOnce(4, input, eof)

read_payload(payload_len, input, eof) == ReadOnce(payload_len, input, eof)

\* read: the payload is read, and unmasked if a mask key came with it
ReadBody(header, mask, body, used) ==
  IF ~body.ok THEN ReadResult("io_error", NoFrame, used + body.used)
  ELSE ReadResult("ok",
         [header |-> header,
          mask |-> mask.bytes,
          payload |-> IF header.masked THEN apply_mask(mask.bytes, body.bytes)
                      ELSE body.bytes],
         used + body.used)

\* read: the mask key is read when the header says masked
ReadMask(header, len, mask, rest, used, eof) ==
  IF ~mask.ok THEN ReadResult("io_error", NoFrame, used)
  ELSE ReadBody(header, mask,
                read_payload(len, Drop(rest, mask.used), eof),
                used + mask.used)

\* read: the length is read as the header's length code says
ReadLength(header, len, rest, eof) ==
  IF ~len.ok THEN ReadResult("io_error", NoFrame, 2 + len.used)
  ELSE ReadMask(header, len.len,
                IF header.masked THEN read_mask(Drop(rest, len.used), eof)
                ELSE [ok |-> TRUE, bytes |-> NoMask, used |-> 0],
                Drop(rest, len.used), 2 + len.used, eof)

\* read: parse_header(buf).unwrap()
ReadHeader(parsed, rest, eof) ==
  IF ~parsed.ok THEN ReadResult("panic", NoFrame, 2)
  ELSE ReadLength(parsed.header,
                  read_length(parsed.header.payload_length, rest), rest, eof)

\* WebSocketFrame::read
Read(input, eof) ==
  IF Len(input) < 2 THEN ReadResult("io_error", NoFrame, Len(input))
  ELSE ReadHeader(parse_header(BEValue(Take(input, 2))), Drop(input, 2), eof)

(***************************************************************************)
(* The constructors of the replies.  A result is [kind, frame] with kind   *)
(* "ok" or "panic" (a slice index out of range).                           *)
(***************************************************************************)
\* a variant that answers a ping with an empty pong
pong_empty(ping_frame) ==
  [header |-> new_header(0, OpPong), mask |-> NoMask, payload |-> << >>]

pong(ping_frame) ==
  [header |-> new_header(Len(ping_frame.payload), OpPong), mask |-> NoMask,
   payload |-> ping_frame.payload]

close_from(recv_frame) ==
  IF Len(recv_frame.payload) > 0
    THEN IF Len(recv_frame.payload) < 2
           THEN [kind |-> "panic", frame |-> NoFrame]
           ELSE LET body == SubSeq(recv_frame.payload, 1, 2)
                IN  [kind |-> "ok",
                     frame |-> [header |-> new_header(Len(body), OpClose),
                                mask |-> NoMask, payload |-> body]]
    ELSE [kind |-> "ok",
          frame |-> [header |-> new_header(0, OpClose), mask |-> NoMask,
                     payload |-> << >>]]

(***************************************************************************)
(* The bytes a peer puts on the wire.  A peer chooses the first byte (fin, *)
(* rsv bits, opcode nibble), whether it masks, and how it encodes the      *)
(* length: "rfc" is RFC 6455's minimal encoding (16 bits up to 65535),     *)
(* "u16" and "u64" force an extended length.                               *)
(***************************************************************************)
MaskKey == << 55, 250, 33, 61 >>

PayloadOf(n, pat) ==
  [i \in 1..n |->
     IF pat = 0
       THEN (IF i = 1 THEN 3 ELSE IF i = 2 THEN 232 ELSE (110 + i) % 256)
       ELSE (96 + i) % 256]

PeerEnc(n, enc) ==
  IF enc = "rfc"
    THEN (IF n < 126 THEN "direct" ELSE IF n <= 65535 THEN "u16" ELSE "u64")
    ELSE enc

PeerBytes(first, masked, enc, payload) ==
  LET n == Len(payload)
      e == PeerEnc(n, enc)
      code == IF e = "direct" THEN n ELSE IF e = "u16" THEN 126 ELSE 127
  IN  << first, BoolBit(masked) * 128 + code >>
      \o (IF e = "u16" THEN U16BE(n) ELSE IF e = "u64" THEN U64BE(n) ELSE << >>)
      \o (IF masked THEN MaskKey \o apply_mask(MaskKey, payload) ELSE payload)

Prefixes(bytes) == { Take(bytes, k) : k \in 0..Len(bytes) }

(***************************************************************************)
(* State.                                                                  *)
(*   The codec bench (CodecSpec):                                          *)
(*     cpc     where the bench stands                                      *)
(*     cprobe  [len, code]: a length and determine_len of it               *)
(*     cin     the bytes a peer sent, crecv the result of reading them     *)
(*     cframe  the result of a constructor, [kind, frame]                  *)
(*     cwire   the bytes WebSocketFrame::write produced for cframe         *)
(*     cback   the result of reading cwire back                            *)
(*   The server (Spec):                                                    *)
(*     clients        WebSocketServer.clients: token -> WebSocketClient    *)
(*     token_counter  WebSocketServer.token_counter                        *)
(*     registered     the event loop's registrations: token -> interest    *)
(*     aborted        the process has panicked                             *)
(*     ev             the readiness event handled last, and what the       *)
(*                    handler read and wrote in it                         *)
(*     assigned       the tokens handed out so far, in order               *)
(***************************************************************************)
VARIABLES cpc, cprobe, cin, crecv, cframe, cwire, cback,
          clients, token_counter, registered, aborted, ev, assigned

cvars == << cpc, cprobe, cin, crecv, cframe, cwire, cback >>
svars == << clients, token_counter, registered, aborted, ev, assigned >>
vars == << cpc, cprobe, cin, crecv, cframe, cwire, cback,
           clients, token_counter, registered, aborted, ev, assigned >>

NoEvent ==
  [token |-> SERVER_TOKEN, events |-> {}, upgrade |-> FALSE, rd |-> "none",
   tx |-> << >>]
NoBuild == [kind |-> "none", frame |-> NoFrame]

\* the state main() builds before event_loop.run
ServerInit ==
  /\ clients = << >>
  /\ token_counter = FIRST_TOKEN
  /\ registered = [t \in {SERVER_TOKEN} |-> [interest |-> {"readable"}, armed |-> TRUE]]
  /\ aborted = FALSE
  /\ ev = NoEvent
  /\ assigned = << >>

CodecInit ==
  /\ cpc = "idle"
  /\ cprobe = [len |-> 0, code |-> 0]
  /\ cin = << >>
  /\ crecv = ReadResult("none", NoFrame, 0)
  /\ cframe = NoBuild
  /\ cwire = << >>
  /\ cback = ReadResult("none", NoFrame, 0)

Init == ServerInit /\ CodecInit

(***************************************************************************)
(* CodecSpec: the codec's functions applied to bounded inputs.             *)
(***************************************************************************)
\* the payload lengths at the edges of the three length encodings
EdgeLens == {0, 1, 125, 126, 65534, 65535, 65536}
TextLens == EdgeLens \cup 0..MaxPayload

\* what a peer sends to the bench: every opcode nibble, with and without
\* fin and mask, every length encoding, cut anywhere; and whole unmasked
\* pings of the edge lengths
FirstBytes == { 128 + n : n \in 0..15 } \cup { 1, 9, 3 }
CodecInputs ==
  UNION { Prefixes(PeerBytes(first, masked, enc, PayloadOf(n, pat))) :
            first \in FirstBytes, masked \in BOOLEAN,
            enc \in {"rfc", "u16", "u64"}, n \in 0..MaxPayload, pat \in {0, 1} }
  \cup { PeerBytes(128 + OpPing, FALSE, "rfc", PayloadOf(n, 1)) : n \in EdgeLens }
  \cup { PeerBytes(128 + OpPing, TRUE, "rfc", PayloadOf(125, 1)),
         PeerBytes(128 + OpPing, TRUE, "rfc", PayloadOf(126, 1)) }

DetermineLenCall ==
  /\ cpc = "idle"
  /\ \E len \in 0..MaxProbeLen :
       cprobe' = [len |-> len, code |-> determine_len(len)]
  /\ cpc' = "len"
  /\ UNCHANGED << cin, crecv, cframe, cwire, cback >>
  /\ UNCHANGED svars

BuildText ==
  /\ cpc = "idle"
  /\ \E n \in TextLens, pat \in {0, 1} :
       cframe' = [kind |-> "ok", frame |-> FromText(PayloadOf(n, pat))]
  /\ cpc' = "built"
  /\ UNCHANGED << cprobe, cin, crecv, cwire, cback >>
  /\ UNCHANGED svars

Decode ==
  /\ cpc = "idle"
  /\ \E input \in CodecInputs, eof \in BOOLEAN :
       /\ cin' = input
       /\ crecv' = Read(input, eof)
  /\ cpc' = IF crecv'.kind = "ok" THEN "decoded" ELSE "failed"
  /\ UNCHANGED << cprobe, cframe, cwire, cback >>
  /\ UNCHANGED svars

BuildPong ==
  /\ cpc = "decoded"
  /\ get_opcode(crecv.frame) = OpPing
  /\ cpc' = "built"
  /\ cframe' = [kind |-> "ok", frame |-> pong(crecv.frame)]
  /\ UNCHANGED << cprobe, cin, crecv, cwire, cback >>
  /\ UNCHANGED svars

BuildClose ==
  /\ cpc = "decoded"
  /\ get_opcode(crecv.frame) = OpClose
  /\ cframe' = close_from(crecv.frame)
  /\ cpc' = IF cframe'.kind = "ok" THEN "built" ELSE "panicked"
  /\ UNCHANGED << cprobe, cin, crecv, cwire, cback >>
  /\ UNCHANGED svars

WriteFrame ==
  /\ cpc = "built"
  /\ cpc' = "written"
  /\ cwire' = Write(cframe.frame)
  /\ UNCHANGED << cprobe, cin, crecv, cframe, cback >>
  /\ UNCHANGED svars

ReadBack ==
  /\ cpc = "written"
  /\ cpc' = "readback"
  /\ cback' = Read(cwire, TRUE)
  /\ UNCHANGED << cprobe, cin, crecv, cframe, cwire >>
  /\ UNCHANGED svars

CodecNext ==
  \/ DetermineLenCall
  \/ BuildText
  \/ Decode
  \/ BuildPong
  \/ BuildClose
  \/ WriteFrame
  \/ ReadBack

CodecSpec == Init /\ [][CodecNext]_vars

(***************************************************************************)
(* main.rs: WebSocketClient.                                               *)
(*   state     "AwaitingHandshake", "HandshakeResponse" or "Connected"     *)
(*   interest  a subset of {"readable", "writable", "hup"}                 *)
(*   headers   the names of the header fields the parser has stored        *)
(*   outgoing  the queue of frames to write                                *)
(* and, to state what a connection does with a frame:                      *)
(*   rx        the frame read_frame decoded last, until the next write     *)
(*             cycle of the connection: [kind, frame], kind "ok" or "none" *)
(* A call of read or write gives [panicked, client, rd, tx]: whether it    *)
(* aborted, the client after it, what the read was ("none", "handshake",   *)
(* or the kind of WebSocketFrame::read's result) and what was handed to    *)
(* the socket, in order.                                                   *)
(***************************************************************************)
KeyHeader == "Sec-WebSocket-Key"

NoRx == [kind |-> "none", frame |-> NoFrame]

NewClient ==
  [state |-> "AwaitingHandshake", interest |-> {"readable"}, headers |-> {},
   outgoing |-> << >>, rx |-> NoRx]

\* "hi there!"
ReplyText == << 104, 105, 32, 116, 104, 101, 114, 101, 33 >>

Flip(interest, from, to) == (interest \ {from}) \cup {to}

ClientResult(panicked, client, rd, tx) ==
  [panicked |-> panicked, client |-> client, rd |-> rd, tx |-> tx]

\* a variant that keeps reading after a frame: the interest is not flipped
OnFrame_no_flip(c, r) ==
  IF r.kind = "panic" THEN ClientResult(TRUE, c, "panic", << >>)
  ELSE IF r.kind # "ok" THEN ClientResult(FALSE, c, r.kind, << >>)
  ELSE
    LET seen == [c EXCEPT !.rx = [kind |-> "ok", frame |-> r.frame]]
    IN  IF get_opcode(r.frame) = OpText
          THEN ClientResult(FALSE,
                 [seen EXCEPT !.outgoing = Append(@, FromText(ReplyText))],
                 "ok", << >>)
        ELSE IF get_opcode(r.frame) = OpPing
          THEN ClientResult(FALSE,
                 [seen EXCEPT !.outgoing = Append(@, pong(r.frame))],
                 "ok", << >>)
        ELSE IF get_opcode(r.frame) = OpClose
          THEN IF close_from(r.frame).kind = "panic"
                 THEN ClientResult(TRUE, c, "ok", << >>)
                 ELSE ClientResult(FALSE,
                        [seen EXCEPT
                           !.outgoing = Append(@, close_from(r.frame).frame)],
                        "ok", << >>)
        ELSE ClientResult(FALSE, seen, "ok", << >>)

\* read_frame: what is done with the result r of WebSocketFrame::read
OnFrame(c, r) ==
  IF r.kind = "panic" THEN ClientResult(TRUE, c, "panic", << >>)
  ELSE IF r.kind # "ok" THEN ClientResult(FALSE, c, r.kind, << >>)
  ELSE
    LET seen == [c EXCEPT !.rx = [kind |-> "ok", frame |-> r.frame],
                          !.interest = Flip(@, "readable", "writable")]
    IN  IF get_opcode(r.frame) = OpText
          THEN ClientResult(FALSE,
                 [seen EXCEPT !.outgoing = Append(@, FromText(ReplyText))],
                 "ok", << >>)
        ELSE IF get_opcode(r.frame) = OpPing
          THEN ClientResult(FALSE,
                 [seen EXCEPT !.outgoing = Append(@, pong(r.frame))],
                 "ok", << >>)
        ELSE IF get_opcode(r.frame) = OpClose
          THEN IF close_from(r.frame).kind = "panic"
                 THEN ClientResult(TRUE, c, "ok", << >>)
                 ELSE ClientResult(FALSE,
                        [seen EXCEPT
                           !.outgoing = Append(@, close_from(r.frame).frame)],
                        "ok", << >>)
        ELSE ClientResult(FALSE, seen, "ok", << >>)

read_frame(c, input, eof) == OnFrame(c, Read(input, eof))

\* The loop over try_read: each chunk read is fed to the parser, which
\* stores the header fields it finds and tells whether the request is an
\* upgrade; the loop ends on the first upgrade, on Ok(None) or on an Err.
RECURSIVE read_handshake(_, _)
read_handshake(c, chunks) ==
  IF chunks = << >> THEN c
  ELSE LET fed == [c EXCEPT !.headers = @ \cup Head(chunks).fields]
       IN  IF Head(chunks).upgrade
             THEN [fed EXCEPT !.state = "HandshakeResponse",
                              !.interest = Flip(@, "readable", "writable")]
             ELSE read_handshake(fed, Tail(chunks))

\* a variant that reads a frame in every state but AwaitingHandshake
ClientRead_frames_early(c, env) ==
  IF c.state = "AwaitingHandshake"
    THEN ClientResult(FALSE, read_handshake(c, env.chunks), "handshake", << >>)
  ELSE read_frame(c, env.input.bytes, env.input.eof)

\* WebSocketClient::read
ClientRead(c, env) ==
  IF c.state = "AwaitingHandshake"
    THEN ClientResult(FALSE, read_handshake(c, env.chunks), "handshake", << >>)
  ELSE IF c.state = "Connected"
    THEN read_frame(c, env.input.bytes, env.input.eof)
  ELSE ClientResult(FALSE, c, "none", << >>)

SentFrame(frame, ok) == [what |-> "frame", frame |-> frame, ok |-> ok]
SentResponse(ok) == [what |-> "response", frame |-> NoFrame, ok |-> ok]

\* a variant that writes the response and leaves the state as it is
write_handshake_no_transition(c, hs) ==
  IF KeyHeader \notin c.headers THEN ClientResult(TRUE, c, "none", << >>)
  ELSE IF hs = "err" THEN ClientResult(TRUE, c, "none", << >>)
  ELSE ClientResult(FALSE,
         [c EXCEPT !.interest = Flip(@, "writable", "readable")],
         "none", << SentResponse(hs = "ok") >>)

\* a variant that answers a request without a key with an empty key
write_handshake_any_key(c, hs) ==
  IF hs = "err" THEN ClientResult(TRUE, c, "none", << >>)
  ELSE ClientResult(FALSE,
         [c EXCEPT !.state = "Connected",
                   !.interest = Flip(@, "writable", "readable")],
         "none", << SentResponse(hs = "ok") >>)

\* hs is what try_write returned: "ok" (Ok(Some)), "wouldblock" (Ok(None))
\* or "err"
write_handshake(c, hs) ==
  IF KeyHeader \notin c.headers THEN ClientResult(TRUE, c, "none", << >>)
  ELSE IF hs = "err" THEN ClientResult(TRUE, c, "none", << >>)
  ELSE ClientResult(FALSE,
         [c EXCEPT !.state = "Connected",
                   !.interest = Flip(@, "writable", "readable")],
         "none", << SentResponse(hs = "ok") >>)

\* a variant that goes back to reading after a Close frame too
write_frames_no_shutdown(c, wfail) ==
  ClientResult(FALSE,
    [c EXCEPT !.rx = NoRx,
              !.outgoing = << >>,
              !.interest = Flip(@, "writable", "readable")],
    "none",
    [i \in 1..Len(c.outgoing) |-> SentFrame(c.outgoing[i], i \notin wfail)])

\* a variant that clears the queue only when every write succeeded
write_frames_keep_failed(c, wfail) ==
  LET close_connection == \E i \in 1..Len(c.outgoing) : is_close(c.outgoing[i])
  IN  ClientResult(FALSE,
        [c EXCEPT !.rx = NoRx,
                  !.outgoing = IF wfail = {} THEN << >> ELSE @,
                  !.interest = IF close_connection
                                 THEN Flip(@, "writable", "hup")
                                 ELSE Flip(@, "writable", "readable")],
        "none",
        [i \in 1..Len(c.outgoing) |-> SentFrame(c.outgoing[i], i \notin wfail)])

\* a variant that does not take writable out of the interest
write_frames_keep_writable(c, wfail) ==
  LET close_connection == \E i \in 1..Len(c.outgoing) : is_close(c.outgoing[i])
  IN  ClientResult(FALSE,
        [c EXCEPT !.rx = NoRx,
                  !.outgoing = << >>,
                  !.interest = IF close_connection
                                 THEN @ \cup {"hup"}
                                 ELSE @ \cup {"readable"}],
        "none",
        [i \in 1..Len(c.outgoing) |-> SentFrame(c.outgoing[i], i \notin wfail)])

\* the Connected arm of WebSocketClient::write; wfail holds the places in
\* the queue of the frames whose write returns Err
write_frames(c, wfail) ==
  LET close_connection == \E i \in 1..Len(c.outgoing) : is_close(c.outgoing[i])
  IN  ClientResult(FALSE,
        [c EXCEPT !.rx = NoRx,
                  !.outgoing = << >>,
                  !.interest = IF close_connection
                                 THEN Flip(@, "writable", "hup")
                                 ELSE Flip(@, "writable", "readable")],
        "none",
        [i \in 1..Len(c.outgoing) |-> SentFrame(c.outgoing[i], i \notin wfail)])

\* WebSocketClient::write
ClientWrite(c, env) ==
  IF c.state = "HandshakeResponse" THEN write_handshake(c, env.hs)
  ELSE IF c.state = "Connected" THEN write_frames(c, env.wfail)
  ELSE ClientResult(FALSE, c, "none", << >>)

(***************************************************************************)
(* main.rs: WebSocketServer::ready, on a value S of the server's state     *)
(* [clients, token_counter, registered, assigned, panicked, returned, rd,  *)
(* tx].  A registration is [interest, armed]: a oneshot registration is    *)
(* disarmed by the event it delivers and armed again by reregister.        *)
(***************************************************************************)
Registration(interest) == [interest |-> interest, armed |-> TRUE]

Without(f, t) == [x \in DOMAIN f \ {t} |-> f[x]]

Panic(S) == [S EXCEPT !.panicked = TRUE]

Reregister(S, token) ==
  [S EXCEPT !.registered =
     (token :> Registration(S.clients[token].interest)) @@ S.registered]

\* a variant that stores the client and does not reregister
Settle_no_rearm(S, token, r) ==
  IF r.panicked THEN Panic([S EXCEPT !.rd = r.rd])
  ELSE [S EXCEPT !.clients[token] = r.client,
                 !.rd = IF r.rd = "none" THEN @ ELSE r.rd,
                 !.tx = @ \o r.tx]

\* the client after client.read() / client.write(), and the reregister
Settle(S, token, r) ==
  IF r.panicked THEN Panic([S EXCEPT !.rd = r.rd])
  ELSE Reregister([S EXCEPT !.clients[token] = r.client,
                            !.rd = IF r.rd = "none" THEN @ ELSE r.rd,
                            !.tx = @ \o r.tx],
                  token)

\* a variant that numbers a connection by the size of the registry
Accept_by_size(S, accept) ==
  IF accept = "none" THEN Panic(S)
  ELSE IF accept = "err" THEN [S EXCEPT !.returned = TRUE]
  ELSE [S EXCEPT
          !.clients = (Cardinality(DOMAIN S.clients) + 1 :> NewClient) @@ S.clients,
          !.token_counter = S.token_counter + 1,
          !.assigned = Append(S.assigned, Cardinality(DOMAIN S.clients) + 1),
          !.registered =
             (Cardinality(DOMAIN S.clients) + 1 :> Registration({"readable"}))
               @@ S.registered]

\* the SERVER_TOKEN arm of ready
Accept(S, accept) ==
  IF accept = "none" THEN Panic(S)
  ELSE IF accept = "err" THEN [S EXCEPT !.returned = TRUE]
  ELSE [S EXCEPT
          !.clients = (S.token_counter :> NewClient) @@ S.clients,
          !.token_counter = S.token_counter + 1,
          !.assigned = Append(S.assigned, S.token_counter),
          !.registered =
             (S.token_counter :> Registration({"readable"})) @@ S.registered]

OnReadable(S, token, env) ==
  IF token = SERVER_TOKEN THEN Accept(S, env.accept)
  ELSE IF token \notin DOMAIN S.clients THEN Panic(S)
  ELSE Settle(S, token, ClientRead(S.clients[token], env))

OnWritable(S, token, env) ==
  IF token \notin DOMAIN S.clients THEN Panic(S)
  ELSE Settle(S, token, ClientWrite(S.clients[token], env))

\* a variant that drops every connection on the hangup of one
OnHup_drop_all(S, token) ==
  IF token \notin DOMAIN S.clients THEN Panic(S)
  ELSE [S EXCEPT !.clients = << >>,
                 !.registered =
                    [x \in {SERVER_TOKEN} |-> S.registered[SERVER_TOKEN]]]

\* a variant that deregisters the socket and keeps the connection
OnHup_keep_client(S, token) ==
  IF token \notin DOMAIN S.clients THEN Panic(S)
  ELSE [S EXCEPT !.registered = Without(S.registered, token)]

OnHup(S, token) ==
  IF token \notin DOMAIN S.clients THEN Panic(S)
  ELSE [S EXCEPT !.clients = Without(S.clients, token),
                 !.registered = Without(S.registered, token)]

ReadablePart(S, token, events, env) ==
  IF "readable" \in events THEN OnReadable(S, token, env) ELSE S

WritablePart(S, token, events, env) ==
  IF S.panicked \/ S.returned \/ "writable" \notin events THEN S
  ELSE OnWritable(S, token, env)

HupPart(S, token, events) ==
  IF S.panicked \/ S.returned \/ "hup" \notin events THEN S
  ELSE OnHup(S, token)

Handle(S, token, events, env) ==
  HupPart(WritablePart(ReadablePart(S, token, events, env), token, events, env),
          token, events)

\* the delivery of a oneshot event disarms the registration
Deliver(token) ==
  IF token = SERVER_TOKEN THEN registered
  ELSE [registered EXCEPT ![token].armed = FALSE]

\* the server's state after the handler; ev keeps the event: its token and
\* conditions, whether a chunk read in it completed an upgrade request,
\* what its read was and what it handed to the socket
Commit(S, token, events, env) ==
  /\ clients' = S.clients
  /\ token_counter' = S.token_counter
  /\ registered' = S.registered
  /\ assigned' = S.assigned
  /\ aborted' = S.panicked
  /\ ev' = [token |-> token, events |-> events,
            upgrade |-> \E i \in DOMAIN env.chunks : env.chunks[i].upgrade,
            rd |-> S.rd, tx |-> S.tx]

ready(token, events, env) ==
  Commit(Handle([clients |-> clients, token_counter |-> token_counter,
                 registered |-> Deliver(token), assigned |-> assigned,
                 panicked |-> FALSE, returned |-> FALSE,
                 rd |-> "none", tx |-> << >>],
                token, events, env),
         token, events, env)

(***************************************************************************)
(* The environment: what the event loop delivers and what the sockets      *)
(* return.  An event is delivered to an armed registration and holds       *)
(* conditions of its interest; the poller reports a hangup whatever the    *)
(* interest.                                                               *)
(***************************************************************************)
EventsFor(token) ==
  { E \in SUBSET (registered[token].interest \cup {"hup"}) : E # {} }

\* a chunk of the upgrade request as the parser sees it
Chunks ==
  { [fields |-> f, upgrade |-> u] : f \in SUBSET {KeyHeader}, u \in BOOLEAN }

\* at most two chunks are read in one readable event
ChunkSeqs ==
  { << >> } \cup { << a >> : a \in Chunks } \cup { << a, b >> : a, b \in Chunks }

\* what a Connected client's socket holds when it reads, [bytes, eof]: a
\* whole masked frame of any opcode nibble the peer likes; nothing, or half
\* a header; or a header whose mask key and payload have not arrived, on a
\* socket that then would block (eof FALSE) or was shut by the peer (TRUE)
ServerFirstBytes == { 128 + op : op \in OpCodes \cup {3} }
PeerFrame(first, n) == PeerBytes(first, TRUE, "rfc", PayloadOf(n, 0))
ServerInputs ==
  { [bytes |-> PeerFrame(first, n), eof |-> FALSE] :
      first \in ServerFirstBytes, n \in 0..MaxPeerPayload }
  \cup { [bytes |-> << >>, eof |-> FALSE],
         [bytes |-> << 128 + OpText >>, eof |-> FALSE] }
  \cup { [bytes |-> Take(PeerFrame(first, n), 2), eof |-> e] :
           first \in ServerFirstBytes, n \in 1..MaxPeerPayload, e \in BOOLEAN }
NoInput == [bytes |-> << >>, eof |-> FALSE]

Env0 ==
  [accept |-> "ok", chunks |-> << >>, input |-> NoInput, hs |-> "ok",
   wfail |-> {}]

EnvsFor(c, events) ==
  { [accept |-> "ok", chunks |-> ch, input |-> i, hs |-> h, wfail |-> w] :
      ch \in (IF "readable" \in events /\ c.state = "AwaitingHandshake"
                THEN ChunkSeqs ELSE { << >> }),
      i \in (IF "readable" \in events /\ c.state = "Connected"
               THEN ServerInputs ELSE { NoInput }),
      h \in (IF "writable" \in events /\ c.state = "HandshakeResponse"
               THEN {"ok", "wouldblock", "err"} ELSE { "ok" }),
      w \in (IF "writable" \in events /\ c.state = "Connected"
               THEN SUBSET (1..Len(c.outgoing)) ELSE { {} }) }

\* a readable event on the listener
ListenerReady ==
  /\ ~aborted
  /\ token_counter <= MaxAccepts
  /\ \E a \in {"ok", "none", "err"} :
       ready(SERVER_TOKEN, {"readable"}, [Env0 EXCEPT !.accept = a])
  /\ UNCHANGED cvars

\* what the sockets may return during an event of a registered handle
EnvsOf(token, events) ==
  IF token \in DOMAIN clients THEN EnvsFor(clients[token], events)
  ELSE { Env0 }

\* an event on a connection's socket: the poller dispatches to the handles
\* that are registered with it
ClientReady ==
  /\ ~aborted
  /\ \E token \in DOMAIN registered \ {SERVER_TOKEN} :
       /\ registered[token].armed
       /\ \E events \in EventsFor(token) :
            \E env \in EnvsOf(token, events) :
              ready(token, events, env)
  /\ UNCHANGED cvars

Next ==
  \/ ListenerReady
  \/ ClientReady

Spec == Init /\ [][Next]_vars

(***************************************************************************)
(* One connection under a poller that keeps no interest: ready is called   *)
(* with any conditions for its handle while it is armed.  This is what     *)
(* "every event sequence" means for the handler taken by itself; a         *)
(* connection that keeps being read without being written would queue      *)
(* without end, so a read is delivered only while the queue is shorter     *)
(* than MaxQueue.                                                          *)
(***************************************************************************)
AnyEvents == { E \in SUBSET {"readable", "writable", "hup"} : E # {} }

QueueHasRoom(token, events) ==
  \/ token \notin DOMAIN clients
  \/ "readable" \notin events
  \/ Len(clients[token].outgoing) < MaxQueue

\* the accept of the first connection
FirstAccept ==
  /\ ~aborted
  /\ token_counter = FIRST_TOKEN
  /\ \E a \in {"ok", "none", "err"} :
       ready(SERVER_TOKEN, {"readable"}, [Env0 EXCEPT !.accept = a])
  /\ UNCHANGED cvars

ClientReadyAny ==
  /\ ~aborted
  /\ \E token \in DOMAIN registered \ {SERVER_TOKEN} :
       /\ registered[token].armed
       /\ \E events \in AnyEvents :
            /\ QueueHasRoom(token, events)
            /\ \E env \in EnvsOf(token, events) :
                 ready(token, events, env)
  /\ UNCHANGED cvars

AnyEventNext ==
  \/ FirstAccept
  \/ ClientReadyAny

AnyEventSpec == Init /\ [][AnyEventNext]_vars

(***************************************************************************)
(* The codec's properties, checked under CodecSpec.                        *)
(***************************************************************************)
\* the length code as the specification words it
ClaimedLenCode(len) ==
  IF len < 126 THEN len ELSE IF len < 65535 THEN 126 ELSE 127

\* C1: determine_len maps a payload length L to L when L < 126, to the
\* 16-bit marker 126 when 126 <= L < 65535 and to the 64-bit marker 127 when
\* L >= 65535; so 125 -> 125, 126 -> 126, 65534 -> 126, 65535 -> 127 and
\* 65536 -> 127.
C1_DetermineLen ==
  cpc = "len" =>
    /\ cprobe.code = ClaimedLenCode(cprobe.len)
    /\ (cprobe.len = 125 => cprobe.code = 125)
    /\ (cprobe.len = 126 => cprobe.code = 126)
    /\ (cprobe.len = 65534 => cprobe.code = 126)
    /\ (cprobe.len = 65535 => cprobe.code = 127)
    /\ (cprobe.len = 65536 => cprobe.code = 127)

C1_Witness == cpc = "len" /\ cprobe.len = 65535 /\ cprobe.code = 127

\* C2: an unmasked frame the engine built (Text, Pong or Close), written by
\* WebSocketFrame::write and read back by WebSocketFrame::read from a stream
\* holding exactly the written bytes, comes back with the same opcode and
\* payload, and the read consumes every written byte.
C2_RoundTrip ==
  cpc = "readback" =>
    /\ cback.kind = "ok"
    /\ get_opcode(cback.frame) = get_opcode(cframe.frame)
    /\ cback.frame.payload = cframe.frame.payload
    /\ cback.consumed = Len(cwire)

C2_Witness ==
  /\ cpc = "readback"
  /\ get_opcode(cframe.frame) = OpText
  /\ Len(cframe.frame.payload) = 65535
  /\ cback.kind = "ok"
  /\ Len(cback.frame.payload) = 65535

\* C3: reading a frame whose header has an opcode nibble outside
\* {1, 2, 8, 9, 0xA} returns an invalid-opcode error as a value, a header
\* with one of those nibbles is accepted, and no header aborts the program.
C3_InvalidOpcodeIsAnError ==
  cpc \in {"decoded", "failed"} /\ Len(cin) >= 2 =>
    /\ crecv.kind # "panic"
    /\ (BitAnd(cin[1], 15) \notin OpCodes => crecv.kind = "invalid_opcode")
    /\ (BitAnd(cin[1], 15) \in OpCodes => crecv.kind \in {"ok", "io_error"})

\* C5: close_from of a received frame returns a Close frame whose payload is
\* the first two bytes of the received payload when they are there and empty
\* otherwise, and never aborts, also for a payload of one byte.
C5_CloseFromIsTotal ==
  cpc \in {"built", "panicked"} /\ crecv.kind = "ok"
    /\ get_opcode(crecv.frame) = OpClose =>
      /\ cframe.kind = "ok"
      /\ get_opcode(cframe.frame) = OpClose
      /\ cframe.frame.payload =
           IF Len(crecv.frame.payload) >= 2
             THEN SubSeq(crecv.frame.payload, 1, 2) ELSE << >>

LengthCodeFits(frame) ==
  frame.header.payload_length = determine_len(Len(frame.payload))

\* C8, as claimed: every frame, built by a constructor or decoded from a
\* peer's bytes, holds the length code determine_len gives its payload.
C8_EveryFrameLengthCode ==
  /\ cframe.kind = "ok" => LengthCodeFits(cframe.frame)
  /\ crecv.kind = "ok" => LengthCodeFits(crecv.frame)
  /\ cback.kind = "ok" => LengthCodeFits(cback.frame)

\* C8, amended: every frame built by a constructor (from text, pong,
\* close_from) holds the length code determine_len gives its payload.
C8_BuiltFrameLengthCode ==
  cframe.kind = "ok" => LengthCodeFits(cframe.frame)

C8_Witness ==
  /\ cpc = "built"
  /\ get_opcode(cframe.frame) = OpText
  /\ Len(cframe.frame.payload) = 65535
  /\ cframe.frame.header.payload_length = PAYLOAD_LEN_U64

(***************************************************************************)
(* The server's properties, checked under Spec.  A step of Spec handles    *)
(* one event: ev' is that event, the unprimed variables are the state it   *)
(* found.                                                                  *)
(***************************************************************************)
Handled(t, condition) == ev'.token = t /\ condition \in ev'.events

HasClose(tx) == \E i \in DOMAIN tx : tx[i].what = "frame" /\ is_close(tx[i].frame)

\* C4: when a Connected connection has decoded a Ping frame with payload P,
\* the next writable event it handles hands exactly one frame to the socket,
\* a Pong with payload P.
C4_PingIsAnsweredByPong ==
  [][\A t \in DOMAIN clients :
       ( /\ Handled(t, "writable")
         /\ clients[t].state = "Connected"
         /\ clients[t].rx.kind = "ok"
         /\ get_opcode(clients[t].rx.frame) = OpPing )
       => /\ Len(ev'.tx) = 1
          /\ ev'.tx[1].what = "frame"
          /\ get_opcode(ev'.tx[1].frame) = OpPong
          /\ ev'.tx[1].frame.payload = clients[t].rx.frame.payload]_vars

C4_Witness ==
  /\ "writable" \in ev.events
  /\ Len(ev.tx) = 1
  /\ ev.tx[1].what = "frame"
  /\ get_opcode(ev.tx[1].frame) = OpPong
  /\ ev.tx[1].frame.payload = << 3, 232 >>

C6_InterestAfterClose ==
  \A t \in DOMAIN clients :
    ev.token = t /\ "writable" \in ev.events /\ HasClose(ev.tx)
      => /\ "hup" \in clients[t].interest
         /\ "readable" \notin clients[t].interest
         /\ "writable" \notin clients[t].interest

C6_QuietUntilHangup ==
  \A t \in DOMAIN clients :
    "hup" \in clients[t].interest =>
      IF ev'.token = t
        THEN /\ ev'.events = {"hup"}
             /\ ev'.rd = "none"
             /\ ev'.tx = << >>
             /\ t \notin DOMAIN clients'
        ELSE /\ t \in DOMAIN clients'
             /\ clients'[t] = clients[t]

\* C6: after a writable event of a Connected connection in which a Close
\* frame was written, the connection's interest holds hup and neither
\* readable nor writable; from then on nothing is read from or written to
\* the connection, and the only event it handles is the hangup that removes
\* it.
C6_CloseThenHangup ==
  []C6_InterestAfterClose /\ [][C6_QuietUntilHangup]_vars

C6_Witness ==
  \E t \in DOMAIN clients :
    /\ ev.token = t
    /\ HasClose(ev.tx)
    /\ clients[t].state = "Connected"
    /\ clients[t].interest = {"hup"}

C10_HandlesGrow ==
  /\ \A i, j \in DOMAIN assigned : i < j => assigned[i] < assigned[j]
  /\ \A i \in DOMAIN assigned : assigned[i] < token_counter
  /\ SERVER_TOKEN \notin DOMAIN clients
  /\ \A t \in DOMAIN clients :
       /\ t < token_counter
       /\ \E i \in DOMAIN assigned : assigned[i] = t

C10_Witness ==
  /\ Len(assigned) >= 2
  /\ assigned[1] \notin DOMAIN clients
  /\ assigned[Len(assigned)] \in DOMAIN clients

Removed(t) ==
  (\E i \in DOMAIN assigned : assigned[i] = t) /\ t \notin DOMAIN clients

\* C11: an event that holds a hangup, handled to its end for a connection in
\* any state, leaves the connection out of the registry and out of the
\* poller's registrations; no event is dispatched to a handle whose
\* connection was removed.
C11_HangupRemoves ==
  [][/\ \A t \in DOMAIN clients :
          ev'.token = t /\ "hup" \in ev'.events /\ ~aborted' =>
            /\ t \notin DOMAIN clients'
            /\ t \notin DOMAIN registered'
     /\ \A i \in DOMAIN assigned :
          Removed(assigned[i]) =>
            /\ assigned[i] \notin DOMAIN registered
            /\ ev'.token # assigned[i]
            /\ Removed(assigned[i])']_vars

C11_Witness ==
  /\ Removed(ev.token)
  /\ ev.events = {"writable", "hup"}
  /\ ev.tx = << SentResponse(TRUE) >>
  /\ ~aborted
  /\ clients # << >>

\* C12: once the server has handled an event of a connection handle, the
\* connection is out of the registry or its handle is registered again,
\* armed, with the interest the connection has now; no connection of the
\* registry is left with a disarmed oneshot registration.
C12_RearmedAfterEveryEvent ==
  ~aborted =>
    \A t \in DOMAIN clients :
      /\ t \in DOMAIN registered
      /\ registered[t].armed
      /\ registered[t].interest = clients[t].interest

C12_Witness ==
  \E t \in DOMAIN clients :
    /\ ev.token = t
    /\ ev.events = {"readable"}
    /\ ev.rd = "ok"
    /\ clients[t].interest = {"writable"}
    /\ registered[t] = Registration({"writable"})

\* C13: a readable event of a Connected connection whose decode fails, by
\* a malformed opcode or a truncated header, only logs the failure: the
\* connection stays in the registry, Connected, with the interest and the
\* queue it had, and the server keeps running.
C13_DecodeFailureIsOnlyLogged ==
  [][\A t \in DOMAIN clients :
       ( /\ ev'.token = t
         /\ ev'.events = {"readable"}
         /\ clients[t].state = "Connected"
         /\ ev'.rd \in {"io_error", "panic"} )
       => /\ ~aborted'
          /\ t \in DOMAIN clients'
          /\ clients'[t].state = "Connected"
          /\ clients'[t].interest = clients[t].interest
          /\ clients'[t].outgoing = clients[t].outgoing]_vars

C14_ConnectedHoldsKey ==
  \A t \in DOMAIN clients :
    clients[t].state = "Connected" => KeyHeader \in clients[t].headers

C14_NoResponseWithoutKey ==
  \A t \in DOMAIN clients :
    ( /\ ev'.token = t
      /\ "writable" \in ev'.events
      /\ clients[t].state = "HandshakeResponse"
      /\ KeyHeader \notin clients[t].headers )
    => /\ ev'.tx = << >>
       /\ t \in DOMAIN clients' => clients'[t].state # "Connected"

\* C14: every Connected connection holds Sec-WebSocket-Key in its headers;
\* a writable event of a HandshakeResponse connection that captured no key
\* hands no 101 response to the socket and does not make it Connected.
C14_KeyRequired ==
  []C14_ConnectedHoldsKey /\ [][C14_NoResponseWithoutKey]_vars

C14_Witness ==
  /\ ev.token \in DOMAIN clients
  /\ "writable" \in ev.events
  /\ clients[ev.token].state = "HandshakeResponse"
  /\ KeyHeader \notin clients[ev.token].headers
  /\ ev.tx = << >>
  /\ aborted

\* C15: a readable event of a Connected connection that decodes a frame
\* enqueues the reply its opcode determines and nothing else: one Text frame
\* with the canned payload for Text, one Pong for Ping, one Close for Close,
\* nothing for Binary or Pong.
C15_OneReplyPerFrame ==
  [][\A t \in DOMAIN clients :
       ( /\ ev'.token = t
         /\ ev'.events = {"readable"}
         /\ clients[t].state = "Connected"
         /\ ev'.rd = "ok" )
       => /\ ~aborted'
          /\ clients'[t].rx.kind = "ok"
          /\ Len(clients'[t].outgoing) <= Len(clients[t].outgoing) + 1
          /\ get_opcode(clients'[t].rx.frame) \in {OpText, OpPing, OpClose}
               => /\ Len(clients'[t].outgoing) = Len(clients[t].outgoing) + 1
                  /\ get_opcode(clients'[t].outgoing[Len(clients'[t].outgoing)])
                       = get_opcode(clients'[t].rx.frame)
                            + (IF get_opcode(clients'[t].rx.frame) = OpPing
                                 THEN 1 ELSE 0)
          /\ get_opcode(clients'[t].rx.frame) = OpText
               => clients'[t].outgoing[Len(clients'[t].outgoing)].payload
                    = ReplyText
          /\ get_opcode(clients'[t].rx.frame) \in {OpBinary, OpPong}
               => clients'[t].outgoing = clients[t].outgoing]_vars

\* C16: a readable event of a Connected connection that decodes a frame,
\* also a Binary or Pong frame that enqueues nothing, leaves the interest
\* {writable}; a writable event that finds the queue empty hands nothing to
\* the socket and leaves the interest {readable}.
C16_InterestFlipsAfterDecode ==
  [][\A t \in DOMAIN clients :
       /\ ( /\ ev'.token = t
            /\ ev'.events = {"readable"}
            /\ clients[t].state = "Connected"
            /\ ev'.rd = "ok" )
          => /\ ~aborted'
             /\ clients[t].interest = {"readable"}
             /\ clients'[t].interest = {"writable"}
       /\ ( /\ ev'.token = t
            /\ ev'.events = {"writable"}
            /\ clients[t].state = "Connected"
            /\ clients[t].outgoing = << >> )
          => /\ ev'.tx = << >>
             /\ clients'[t].interest = {"readable"}]_vars

\* C17: between events the interest of every connection of the registry
\* is exactly one of {readable}, {writable}, {hup}, and agrees with its
\* state: {readable} in AwaitingHandshake, {writable} in HandshakeResponse,
\* {hup} only in Connected.
C17_InterestAgreesWithState ==
  \A t \in DOMAIN clients :
    /\ clients[t].interest \in { {"readable"}, {"writable"}, {"hup"} }
    /\ clients[t].state = "AwaitingHandshake"
         => clients[t].interest = {"readable"}
    /\ clients[t].state = "HandshakeResponse"
         => clients[t].interest = {"writable"}
    /\ clients[t].interest = {"hup"} => clients[t].state = "Connected"

C17_Witness ==
  \E t, u \in DOMAIN clients :
    /\ clients[t].state = "Connected" /\ clients[t].interest = {"hup"}
    /\ clients[u].state = "HandshakeResponse"
    /\ clients[u].interest = {"writable"}
    /\ ~aborted

\* C18: with events delivered for the registered interest, the queue of a
\* connection never holds more than one frame, and it holds one only while
\* the connection is Connected with interest {writable}; it is empty in
\* AwaitingHandshake and in HandshakeResponse.
C18_QueueAtMostOne ==
  \A t \in DOMAIN clients :
    /\ Len(clients[t].outgoing) <= 1
    /\ clients[t].outgoing # << >> =>
         /\ clients[t].state = "Connected"
         /\ clients[t].interest = {"writable"}

C18_Witness ==
  \E t \in DOMAIN clients :
    /\ Len(clients[t].outgoing) = 1
    /\ is_close(clients[t].outgoing[1])
    /\ clients[t].interest = {"writable"}
    /\ ev.token = t
    /\ ev.events = {"readable"}

\* C20: an event of connection handle h changes only the connection
\* stored under h: every other connection, the other handles of the
\* registry and the next-handle counter stay as they are; only an event of
\* the listener adds a connection, and only a hangup of h removes h.
C20_EventTouchesOnlyItsConnection ==
  [][/\ ev'.token # SERVER_TOKEN =>
          /\ token_counter' = token_counter
          /\ DOMAIN clients' \ {ev'.token} = DOMAIN clients \ {ev'.token}
          /\ \A u \in DOMAIN clients \ {ev'.token} :
               /\ clients'[u].state = clients[u].state
               /\ clients'[u].interest = clients[u].interest
               /\ clients'[u].headers = clients[u].headers
               /\ clients'[u].outgoing = clients[u].outgoing
     /\ (\E u \in DOMAIN clients' : u \notin DOMAIN clients)
          => ev'.token = SERVER_TOKEN
     /\ \A t \in DOMAIN clients :
          t \notin DOMAIN clients' => ev'.token = t /\ "hup" \in ev'.events]_vars

C20_Witness ==
  \E t, u \in DOMAIN clients :
    /\ t # u
    /\ ev.token = t
    /\ ev.rd = "ok"
    /\ Len(clients[t].outgoing) = 1
    /\ clients[u].state = "Connected"
    /\ clients[u].interest = {"hup"}

(***************************************************************************)
(* The connection's state machine under every event sequence, checked      *)
(* under AnyEventSpec.                                                     *)
(***************************************************************************)
Rank(state) ==
  IF state = "AwaitingHandshake" THEN 1
  ELSE IF state = "HandshakeResponse" THEN 2 ELSE 3

\* C19: no event moves a connection back to an earlier state; it becomes
\* Connected only through write_handshake's response, so HandshakeResponse
\* is never skipped; a readable event in HandshakeResponse and a writable
\* event in AwaitingHandshake change nothing; until the connection is
\* Connected no frame is decoded and none is enqueued.
C19_StateMovesForward ==
  [][\A t \in DOMAIN clients :
       ev'.token = t =>
         /\ t \in DOMAIN clients' =>
              /\ Rank(clients'[t].state) >= Rank(clients[t].state)
              /\ ( clients'[t].state = "Connected"
                   /\ clients[t].state # "Connected" )
                 => /\ "writable" \in ev'.events
                    /\ Len(ev'.tx) >= 1
                    /\ ev'.tx[1].what = "response"
                    /\ clients[t].state = "AwaitingHandshake"
                         => "readable" \in ev'.events /\ ev'.upgrade
         /\ ( \/ /\ clients[t].state = "HandshakeResponse"
                 /\ ev'.events = {"readable"}
              \/ /\ clients[t].state = "AwaitingHandshake"
                 /\ ev'.events = {"writable"} )
            => /\ ~aborted'
               /\ t \in DOMAIN clients'
               /\ clients'[t] = clients[t]
               /\ ev'.rd = "none"
               /\ ev'.tx = << >>
         /\ clients[t].state # "Connected"
            => /\ ev'.rd \in {"none", "handshake"}
               /\ \A i \in DOMAIN ev'.tx : ev'.tx[i].what = "response"
               /\ t \in DOMAIN clients' =>
                    /\ clients'[t].outgoing = << >>
                    /\ clients'[t].rx = NoRx]_vars

C19_Witness ==
  /\ ev.token \in DOMAIN clients
  /\ ev.events = {"readable"}
  /\ clients[ev.token].state = "HandshakeResponse"
  /\ clients[ev.token].interest = {"writable"}
  /\ ev.rd = "none"
  /\ ~aborted

=============================================================================
